---- MODULE Spec2Model ----
(***************************************************************************)
(* VideoHub API (main.py): the channel cache (SQLite table `channels`),    *)
(* the three request handlers that touch it (/video_info, /download,       *)
(* /channels/{id}/videos) and the stream-then-delete file lifecycle of     *)
(* /download.                                                              *)
(*                                                                         *)
(* Two requests are served concurrently, each in its own slot (Reqs).  A   *)
(* step of a handler that touches shared state (the clock, the table, the  *)
(* downloads directory) is one action; steps that only touch the request's *)
(* locals are folded into the action before them.  upsert_channel opens    *)
(* its own connection and runs the SELECT and the INSERT/UPDATE as         *)
(* separate statements outside any transaction that spans both, so the     *)
(* steps of two calls (two worker processes sharing app.db) interleave.    *)
(* The INSERT/UPDATE and its COMMIT hold SQLite's write lock, under which  *)
(* no other connection writes and every other connection still reads the   *)
(* table as it was: the two are one atomic step.                           *)
(***************************************************************************)
EXTENDS Integers, Sequences, FiniteSets, TLC

\* ------------------------------------------------------------- bounds
\* the clock takes the values TimeOf(0) .. TimeOf(MaxTime)
MaxTime == 1
\* a materialized file holds up to MaxChunks full chunks and one byte
MaxChunks == 1

\* ---------------------------------------------------------- constants
\* f.read(1024 * 1024)
CHUNK == 1048576

\* title_for_name[:100]
MaxTitleLen == 100

\* the requests in flight
Reqs == {1, 2}

\* Python None for a string-valued field
NULL == "NULL"

\* `not x` for an optional string: None and "" are falsy
Falsy(x) == x = NULL \/ x = ""

\* ------------------------------------------------------- input samples
\* info.get("channel_id") as the extractor may return it
ExtractorChannelIds == {NULL, "", "UC1"}
\* the {channel_id} path parameter
PathChannelIds == {"UC1", "UC2"}
\* info.get("uploader")
Titles == {NULL, "Acme"}
\* items[0]["snippet"]["title"] of the external API
ApiTitles == {"Beta"}
\* info.get("thumbnail")
Thumbs == {NULL, "t1"}
\* items[0]["snippet"]["thumbnails"]["default"]["url"]
ApiThumbs == {"t2"}
\* info.get("title"): None is {}, a string s is {s}; a string is a sequence of characters
VideoTitles == { {}, {<<>>}, {<<" ", "a", "/", "\n", "b", " ">>} }
\* the save query parameter
SaveValues == {0, 1, 2}
\* os.environ.get("YT_API_KEY")
ApiKeys == {NULL, "", "k"}
\* status codes the external API may answer with
UpstreamStatus == {200, 403}
\* sizes in bytes of a materialized file, around the multiples of the chunk size
FileSizes == { k * CHUNK + d : k \in 0..MaxChunks, d \in {0, 1} }

\* --------------------------------------------------------------- time
\* datetime.utcnow() as <<seconds, microseconds>>: the k-th value the clock can take
TimeOf(k) == <<k \div 2, (k % 2) * 500000>>

Times == { TimeOf(k) : k \in 0..MaxTime }

TimeLeq(a, b) == a[1] < b[1] \/ (a[1] = b[1] /\ a[2] <= b[2])

\* datetime.isoformat(): the fraction is left out when microsecond = 0.  The text
\* is the sequence of its fixed-width fields.
IsoFormat(t) == IF t[2] = 0 THEN <<t[1]>> ELSE <<t[1], t[2]>>

\* comparison of two TEXT timestamps as SQLite compares them: field by field
\* from the left, a proper prefix sorting first
RECURSIVE TextLeq(_, _)
TextLeq(x, y) ==
    IF x = <<>> THEN TRUE
    ELSE IF y = <<>> THEN FALSE
    ELSE IF Head(x) # Head(y) THEN Head(x) < Head(y)
    ELSE TextLeq(Tail(x), Tail(y))

\* ---------------------------------------------------------- file names
\* characters the pattern [^\w\- .] lets through: word characters, hyphen, space, period
WordChars == {"a", "b", "d", "e", "i", "o", "v", "m", "p", "4", "_"}
Allowed(c) == c \in WordChars \/ c \in {"-", " ", "."}

\* characters str.strip() removes
Whitespace == {" ", "\n", "\t"}

RECURSIVE LStrip(_)
LStrip(s) == IF s # <<>> /\ Head(s) \in Whitespace THEN LStrip(Tail(s)) ELSE s

RECURSIVE RStrip(_)
RStrip(s) ==
    IF s # <<>> /\ s[Len(s)] \in Whitespace THEN RStrip(SubSeq(s, 1, Len(s) - 1)) ELSE s

\* str.strip()
Strip(s) == RStrip(LStrip(s))

\* str.replace("\n", " ")
ReplaceNewlines(s) == [i \in 1..Len(s) |-> IF s[i] = "\n" THEN " " ELSE s[i]]

\* s[:100]
Truncate(s) == SubSeq(s, 1, IF Len(s) < MaxTitleLen THEN Len(s) ELSE MaxTitleLen)

\* the fallback name "video"
Video == <<"v", "i", "d", "e", "o">>

\* (info.get("title") or "video").strip().replace("\n", " ")[:100]
TitleForName(vtitle) ==
    LET t == IF vtitle = {} \/ vtitle = {<<>>} THEN Video ELSE CHOOSE x \in vtitle : TRUE
    IN  Truncate(ReplaceNewlines(Strip(t)))

\* re.sub(r"[^\w\- .]", "_", title_for_name) + ".mp4"
FilenameSafe(name) ==
    [i \in 1..Len(name) |-> IF Allowed(name[i]) THEN name[i] ELSE "_"]
      \o <<".", "m", "p", "4">>


\* --------------------------------------------------------------- state
VARIABLES
    key,        \* YOUTUBE_API_KEY, read once at import
    clock,      \* the last value datetime.utcnow() returned
    channels,   \* the rows of table channels
    files,      \* downloads directory: the paths that exist
    req         \* per request: the handler's position and locals

vars == <<key, clock, channels, files, req>>

NoTime == <<>>
NoPath == <<>>

\* a request slot before its request arrives
IdleReq ==
    [kind |-> "none", pc |-> "idle", save |-> 0, metaOK |-> FALSE,
     ch |-> NULL, title |-> NULL, thumb |-> NULL, now |-> NoTime, found |-> FALSE,
     created |-> FALSE, raised |-> FALSE, calls |-> 0,
     status |-> 0, filename |-> <<>>, path |-> NoPath,
     fsize |-> 0, pos |-> 0, chunks |-> <<>>, rmerr |-> FALSE]

Init ==
    /\ key \in ApiKeys
    /\ clock = TimeOf(0)
    /\ channels = {}
    /\ files = {}
    /\ req = [r \in Reqs |-> IdleReq]

\* the locals of upsert_channel go out of scope when it returns or raises
DropUpsertLocals(rq) ==
    [rq EXCEPT !.ch = NULL, !.title = NULL, !.thumb = NULL,
               !.now = NoTime, !.found = FALSE]

\* the handler returns (or raises) with this status
Respond(rq, status) ==
    [DropUpsertLocals(rq) EXCEPT !.pc = "done", !.status = status,
                                 !.save = 0, !.metaOK = FALSE]

\* ------------------------------------------------------ channel cache
\* CREATE TABLE channels (id TEXT PRIMARY KEY, title, thumbnail, saved_at, last_used_at)
Row(id, title, thumb, saved, used) ==
    [id |-> id, title |-> title, thumbnail |-> thumb,
     saved_at |-> saved, last_used_at |-> used]

\* SELECT id FROM channels WHERE id=?  followed by  if cur.fetchone()
SelectId(rows, id) == \E row \in rows : row.id = id

\* mutant: the column is set to the parameter even when it is null (SET title=?)
Coalesce_Overwrite(new, old) == new

\* SQL COALESCE(?, column)
Coalesce(new, old) == IF new # NULL THEN new ELSE old

\* mutant: the UPDATE also resets saved_at (INSERT OR REPLACE of the whole row)
SqlUpdate_TouchesSavedAt(rows, id, title, thumb, now) ==
    { IF row.id = id
        THEN [row EXCEPT !.title = Coalesce(title, row.title),
                         !.thumbnail = Coalesce(thumb, row.thumbnail),
                         !.saved_at = IsoFormat(now),
                         !.last_used_at = IsoFormat(now)]
        ELSE row : row \in rows }

\* UPDATE channels SET title=COALESCE(?, title), thumbnail=COALESCE(?, thumbnail),
\*                     last_used_at=? WHERE id=?
SqlUpdate(rows, id, title, thumb, now) ==
    { IF row.id = id
        THEN [row EXCEPT !.title = Coalesce(title, row.title),
                         !.thumbnail = Coalesce(thumb, row.thumbnail),
                         !.last_used_at = IsoFormat(now)]
        ELSE row : row \in rows }

\* the PRIMARY KEY constraint, as INSERT checks it
PrimaryKeyFree(rows, id) == ~ \E row \in rows : row.id = id

\* INSERT INTO channels (id, title, thumbnail, saved_at, last_used_at) VALUES (?, ?, ?, ?, ?)
SqlInsert(rows, id, title, thumb, now) ==
    rows \cup {Row(id, title, thumb, IsoFormat(now), IsoFormat(now))}

\* what the handler does when upsert_channel returns: /video_info and the channel
\* listing answer 200, /download goes on to materialize the media
AfterUpsert(rq) ==
    IF rq.kind = "download"
      THEN [DropUpsertLocals(rq) EXCEPT !.pc = "materialize"]
      ELSE Respond(rq, 200)

\* what the handler does when upsert_channel raises: /video_info turns it into a
\* 400, /download swallows it with the metadata (info = {}, title "video"), the
\* channel listing lets it through (500)
AfterUpsertRaised(rq) ==
    IF rq.kind = "video_info"
      THEN Respond([rq EXCEPT !.raised = TRUE], 400)
    ELSE IF rq.kind = "download"
      THEN [DropUpsertLocals(rq) EXCEPT !.pc = "materialize", !.raised = TRUE]
    ELSE Respond([rq EXCEPT !.raised = TRUE], 500)

\* the call upsert_channel(ch_id, title, thumb):  if not ch_id: return
UpsertCall(rq, id, title, thumb) ==
    IF Falsy(id)
      THEN AfterUpsert(rq)
      ELSE [rq EXCEPT !.ch = id, !.title = title, !.thumb = thumb, !.pc = "ups_now"]

\* now = datetime.utcnow().isoformat(); conn = get_db()
UpsertNow(r) ==
    /\ req[r].pc = "ups_now"
    /\ \E t \in Times :
         /\ TimeLeq(clock, t)
         /\ clock' = t
         /\ req' = [req EXCEPT ![r].now = t, ![r].pc = "ups_select"]
    /\ UNCHANGED <<key, channels, files>>

\* cur.execute("SELECT id FROM channels WHERE id=?"); cur.fetchone()
UpsertSelect(r) ==
    /\ req[r].pc = "ups_select"
    /\ req' = [req EXCEPT ![r].found = SelectId(channels, req[r].ch),
                          ![r].pc = "ups_write"]
    /\ UNCHANGED <<key, clock, channels, files>>

\* cur.execute(UPDATE ...) or cur.execute(INSERT ...), conn.commit(), conn.close().
\* An INSERT of an id that is in the table by now raises sqlite3.IntegrityError
UpsertWrite(r) ==
    /\ req[r].pc = "ups_write"
    /\ \/ /\ req[r].found
          /\ channels' = SqlUpdate(channels, req[r].ch, req[r].title, req[r].thumb,
                                   req[r].now)
          /\ req' = [req EXCEPT ![r] = AfterUpsert(req[r])]
       \/ /\ ~req[r].found
          /\ PrimaryKeyFree(channels, req[r].ch)
          /\ channels' = SqlInsert(channels, req[r].ch, req[r].title, req[r].thumb,
                                   req[r].now)
          /\ req' = [req EXCEPT ![r] = AfterUpsert([req[r] EXCEPT !.created = TRUE])]
       \/ /\ ~req[r].found
          /\ ~PrimaryKeyFree(channels, req[r].ch)
          /\ channels' = channels
          /\ req' = [req EXCEPT ![r] = AfterUpsertRaised(req[r])]
    /\ UNCHANGED <<key, clock, files>>

\* ------------------------------------------------------------ handlers
\* request slots are taken in order of arrival
Arrives(r) == req[r].pc = "idle" /\ \A q \in Reqs : q < r => req[q].pc # "idle"

\* mutant: the channel is saved whatever save is (the test on save is missing)
VideoInfo_SaveIgnored(r) ==
    /\ Arrives(r)
    /\ \E save \in SaveValues :
         LET rq == [req[r] EXCEPT !.kind = "video_info", !.save = save] IN
         \/ req' = [req EXCEPT ![r] = Respond(rq, 400)]
         \/ \E id \in ExtractorChannelIds, up \in Titles, th \in Thumbs :
              LET data == [rq EXCEPT !.metaOK = TRUE] IN
              req' = [req EXCEPT ![r] =
                        IF ~Falsy(id)
                          THEN UpsertCall(data, id, up, th)
                          ELSE Respond(data, 200)]
    /\ UNCHANGED <<key, clock, channels, files>>

\* GET /video_info?url=..&save=..: extract_info, then the upsert when save == 1
\* and the channel id is truthy; an exception becomes a 400
VideoInfo(r) ==
    /\ Arrives(r)
    /\ \E save \in SaveValues :
         LET rq == [req[r] EXCEPT !.kind = "video_info", !.save = save] IN
         \/ req' = [req EXCEPT ![r] = Respond(rq, 400)]
         \/ \E id \in ExtractorChannelIds, up \in Titles, th \in Thumbs :
              LET data == [rq EXCEPT !.metaOK = TRUE] IN
              req' = [req EXCEPT ![r] =
                        IF save = 1 /\ ~Falsy(id)
                          THEN UpsertCall(data, id, up, th)
                          ELSE Respond(data, 200)]
    /\ UNCHANGED <<key, clock, channels, files>>

\* GET /download?url=..: the best-effort metadata fetch with the upsert it feeds;
\* a failure of extract_info leaves info = {}
Download(r) ==
    /\ Arrives(r)
    /\ LET rq == [req[r] EXCEPT !.kind = "download"] IN
       \/ req' = [req EXCEPT ![r] = [rq EXCEPT !.pc = "materialize"]]
       \/ \E id \in ExtractorChannelIds, up \in Titles, th \in Thumbs :
            req' = [req EXCEPT ![r] = UpsertCall([rq EXCEPT !.metaOK = TRUE], id, up, th)]
    /\ UNCHANGED <<key, clock, channels, files>>

\* mutant: the credential check is missing; the API is called with whatever key
\* there is
ChannelVideos_NoKeyCheck(r) ==
    /\ Arrives(r)
    /\ \E id \in PathChannelIds :
         LET rq == [req[r] EXCEPT !.kind = "channel_videos"] IN
         \/ \E st \in UpstreamStatus \ {200} :
              req' = [req EXCEPT ![r] = Respond([rq EXCEPT !.calls = 1], st)]
         \/ req' = [req EXCEPT ![r] = Respond([rq EXCEPT !.calls = 1], 404)]
         \/ \E st \in UpstreamStatus \ {200} :
              req' = [req EXCEPT ![r] = Respond([rq EXCEPT !.calls = 2], st)]
         \/ \E t \in ApiTitles, th \in ApiThumbs :
              req' = [req EXCEPT ![r] = UpsertCall([rq EXCEPT !.calls = 2], id, t, th)]
    /\ UNCHANGED <<key, clock, channels, files>>

\* GET /channels/{channel_id}/videos: the credential check, the two calls to the
\* external API (calls counts them), then the upsert
ChannelVideos(r) ==
    /\ Arrives(r)
    /\ \E id \in PathChannelIds :
         LET rq == [req[r] EXCEPT !.kind = "channel_videos"] IN
         \/ /\ Falsy(key)
            /\ req' = [req EXCEPT ![r] = Respond(rq, 400)]
         \/ /\ ~Falsy(key)
            /\ \E st \in UpstreamStatus \ {200} :
                 req' = [req EXCEPT ![r] = Respond([rq EXCEPT !.calls = 1], st)]
         \/ /\ ~Falsy(key)
            /\ req' = [req EXCEPT ![r] = Respond([rq EXCEPT !.calls = 1], 404)]
         \/ /\ ~Falsy(key)
            /\ \E st \in UpstreamStatus \ {200} :
                 req' = [req EXCEPT ![r] = Respond([rq EXCEPT !.calls = 2], st)]
         \/ /\ ~Falsy(key)
            /\ \E t \in ApiTitles, th \in ApiThumbs :
                 req' = [req EXCEPT ![r] = UpsertCall([rq EXCEPT !.calls = 2], id, t, th)]
    /\ UNCHANGED <<key, clock, channels, files>>

\* ------------------------------------------------------ download files
\* out_base + ".%(ext)s" with unique_id = uuid.uuid4().hex: unique per request
OutPath(r, ext) == <<r, ext>>

\* os.path.exists(path)
Exists(dir, path) == path \in dir

\* final_path = ydl.prepare_filename(result); when it does not end with .mp4 and
\* base + ".mp4" exists, final_path = merged
ResolveFinalPath(dir, r, ext) ==
    IF ext # "mp4" /\ Exists(dir, OutPath(r, "mp4")) THEN OutPath(r, "mp4") ELSE OutPath(r, ext)

\* mutant: the except branch does not reset title_for_name
NamesFor_NoFallback(rq) == { TitleForName(vt) : vt \in VideoTitles }

\* title_for_name: line 163 when the metadata block ran through (info's title is
\* read here for the first time), "video" when it raised
NamesFor(rq) ==
    IF rq.metaOK /\ ~rq.raised THEN { TitleForName(vt) : vt \in VideoTitles } ELSE {Video}

\* ydl.extract_info(url, download=True) up to the return of the StreamingResponse:
\* the downloader raises (500), or reports a path with extension ext and leaves
\* on disk some of the reported file and the merged .mp4
Materialize(r) ==
    /\ req[r].pc = "materialize"
    /\ \/ /\ req' = [req EXCEPT ![r] = Respond(req[r], 500)]
          /\ files' = files
       \/ \E ext \in {"mp4", "webm"}, name \in NamesFor(req[r]) :
          \E present \in SUBSET {OutPath(r, ext), OutPath(r, "mp4")} :
            /\ files' = files \cup present
            /\ req' = [req EXCEPT ![r].pc = "stream_open", ![r].status = 200,
                                  ![r].path = ResolveFinalPath(files', r, ext),
                                  ![r].filename = FilenameSafe(name)]
    /\ UNCHANGED <<key, clock, channels>>

\* mutant: f.read() without a size returns the whole rest of the file
ReadLen_WholeRest(size, pos) == size - pos

\* f.read(1024 * 1024) at offset pos of a file of size bytes: the number of bytes
\* returned
ReadLen(size, pos) == IF size - pos < CHUNK THEN size - pos ELSE CHUNK

\* os.remove(final_path) inside try/except Exception: pass.  ok: the call
\* succeeded
Remove(dir, path, ok) == IF ok THEN dir \ {path} ELSE dir

\* the generator, resumed at its loop: chunk := f.read(1024 * 1024) either raises,
\* or yields the chunk, or is empty, and then the with block closes the file and
\* os.remove runs
ReadOrFinish(rq, dir, ok) ==
    LET n == ReadLen(rq.fsize, rq.pos) IN
    IF n > 0
      THEN [rq |-> [rq EXCEPT !.pc = "stream_yield", !.pos = @ + n,
                              !.chunks = Append(@, n)],
            dir |-> dir]
      ELSE [rq |-> [rq EXCEPT !.pc = "stream_done", !.rmerr = ~ok],
            dir |-> Remove(dir, rq.path, ok)]

\* the response head (status, headers) is on the wire before the body iterator
\* is first advanced; the handler's locals are gone
HeadSent(rq) ==
    [rq EXCEPT !.filename = <<>>, !.metaOK = FALSE, !.created = FALSE, !.raised = FALSE]

\* the server's first next() on stream_and_delete(): open(final_path, "rb") raises
\* when the file is missing, after the response has begun; else the first read
StreamStart(r) ==
    /\ req[r].pc = "stream_open"
    /\ \/ /\ ~Exists(files, req[r].path)
          /\ req' = [req EXCEPT ![r] = [HeadSent(req[r]) EXCEPT !.pc = "stream_error"]]
          /\ files' = files
       \/ /\ Exists(files, req[r].path)
          /\ req' = [req EXCEPT ![r] = [HeadSent(req[r]) EXCEPT !.pc = "stream_error"]]
          /\ files' = files
       \/ /\ Exists(files, req[r].path)
          /\ \E size \in FileSizes, ok \in BOOLEAN :
               LET out == ReadOrFinish([HeadSent(req[r]) EXCEPT !.fsize = size], files, ok)
               IN  req' = [req EXCEPT ![r] = out.rq] /\ files' = out.dir
    /\ UNCHANGED <<key, clock, channels>>

\* a further next(): the generator resumes after the yield
StreamNext(r) ==
    /\ req[r].pc = "stream_yield"
    /\ \/ /\ req' = [req EXCEPT ![r].pc = "stream_error"]
          /\ files' = files
       \/ \E ok \in BOOLEAN :
            LET out == ReadOrFinish(req[r], files, ok)
            IN  req' = [req EXCEPT ![r] = out.rq] /\ files' = out.dir
    /\ UNCHANGED <<key, clock, channels>>

\* the consumer goes away: the generator is closed at the yield; GeneratorExit
\* leaves the with block (the file is closed) and the function
StreamClose(r) ==
    /\ req[r].pc = "stream_yield"
    /\ req' = [req EXCEPT ![r].pc = "stream_closed"]
    /\ UNCHANGED <<key, clock, channels, files>>

\* ------------------------------------------------------- specification
Next ==
    \E r \in Reqs :
        \/ VideoInfo(r)
        \/ Download(r)
        \/ ChannelVideos(r)
        \/ UpsertNow(r)
        \/ UpsertSelect(r)
        \/ UpsertWrite(r)
        \/ Materialize(r)
        \/ StreamStart(r)
        \/ StreamNext(r)
        \/ StreamClose(r)

Spec == Init /\ [][Next]_vars

\* ============================================================== claims
\* positions inside upsert_channel
UpsPcs == {"ups_now", "ups_select", "ups_write"}

\* positions where the stream of a /download has ended
StreamEnded == {"stream_done", "stream_closed", "stream_error"}

\* the step is taken by request r
StepOf(r) == req'[r] # req[r]

\* the ids in a table
Ids(rows) == { row.id : row \in rows }

RECURSIVE SumSeq(_)
SumSeq(q) == IF q = <<>> THEN 0 ELSE Head(q) + SumSeq(Tail(q))

\* "video.mp4"
VideoMp4 == <<"v", "i", "d", "e", "o", ".", "m", "p", "4">>

\* ------------------------------------------------------------------ C1
\* C1: whenever the stream of a /download whose file was materialized has ended
\* (read to the end, closed by the caller mid-stream, or failed on a read), the
\* cleanup has run: the file is gone or its deletion was attempted.
C1_CleanupOnEveryExit ==
    \A r \in Reqs :
        req[r].pc \in StreamEnded =>
            ~Exists(files, req[r].path) \/ req[r].rmerr

\* ------------------------------------------------------------------ C2
\* C2: under every interleaving of two upsert_channel calls, each call completes
\* without error and takes effect as one whole upsert applied to the table at its
\* write, so the table is the one a sequential order of the calls produces.
C2_UpsertsSerialized ==
    [][ \A r \in Reqs :
          (req[r].pc = "ups_write" /\ StepOf(r)) =>
              /\ ~req'[r].raised
              /\ channels' =
                   IF SelectId(channels, req[r].ch)
                     THEN SqlUpdate(channels, req[r].ch, req[r].title, req[r].thumb,
                                    req[r].now)
                     ELSE SqlInsert(channels, req[r].ch, req[r].title, req[r].thumb,
                                    req[r].now) ]_vars

\* ------------------------------------------------------------------ C3
\* C3: in every reachable state the table holds exactly one record per channel id
\* and every record has saved_at <= last_used_at.
C3_OneRecordOrdered ==
    \A row \in channels :
        /\ Cardinality({ x \in channels : x.id = row.id }) = 1
        /\ TextLeq(row.saved_at, row.last_used_at)

\* ------------------------------------------------------------------ C4
\* C4 as stated: a request that ended in failure created no record.
C4_FailedRequestCreatesNothing ==
    \A r \in Reqs :
        (req[r].pc = "done" /\ req[r].status # 200) => ~req[r].created

\* the requests whose upsert may create a record: /video_info with save = 1 and
\* /download, after extract_info returned a truthy channel id; the channel
\* listing after its two API calls
MayCreate(rq) ==
    /\ rq.pc = "ups_write"
    /\ ~Falsy(rq.ch)
    /\ \/ rq.kind = "video_info" /\ rq.save = 1 /\ rq.metaOK
       \/ rq.kind = "download" /\ rq.metaOK
       \/ rq.kind = "channel_videos" /\ rq.calls = 2

\* C4 amended: the set of records changes only at the upsert of a /video_info
\* with save = 1 or of a /download whose extract_info returned a channel id, or
\* of a channel listing whose API calls succeeded; a /video_info or a listing
\* that created a record ends with 200, a /download that created one ends with
\* 200 or with 500 (the upsert precedes the materialization); no record is ever
\* deleted.
C4_CreatedOnlyByUpsertingRequests ==
    /\ [][ /\ Ids(channels) \subseteq Ids(channels')
           /\ \A r \in Reqs :
                (StepOf(r) /\ Ids(channels') # Ids(channels)) =>
                    MayCreate(req[r]) /\ req'[r].created ]_vars
    /\ [](\A r \in Reqs :
            /\ req[r].pc \in UpsPcs =>
                 \/ req[r].kind = "video_info" /\ req[r].save = 1 /\ req[r].metaOK
                 \/ req[r].kind = "download" /\ req[r].metaOK
                 \/ req[r].kind = "channel_videos" /\ req[r].calls = 2
            /\ (req[r].created /\ req[r].pc = "done") =>
                 \/ req[r].status = 200
                 \/ req[r].kind = "download" /\ req[r].status = 500)

\* a /download that created a record and then failed to materialize
C4_Witness ==
    \E r \in Reqs :
        /\ req[r].kind = "download" /\ req[r].pc = "done"
        /\ req[r].status = 500 /\ req[r].created
        /\ channels # {}

\* ------------------------------------------------------------------ C5
\* C5: a /download that cannot deliver the file (materialization failed, or the
\* resolved final path does not exist) ends with a 500 and never starts a 200
\* streaming response.
C5_UndeliverableIs500 ==
    \A r \in Reqs :
        req[r].kind = "download" =>
            /\ (req[r].pc = "done" => req[r].status = 500)
            /\ (req[r].pc = "stream_open" /\ req[r].status = 200) =>
                   Exists(files, req[r].path)

\* ------------------------------------------------------------------ C6
\* C6: a /download whose metadata fetch failed and whose materialization
\* succeeded answers 200 with the filename "video.mp4", never enters
\* upsert_channel, and none of its steps changes the table.
C6_MetadataFailureSwallowed ==
    /\ [](\A r \in Reqs :
            (req[r].kind = "download" /\ ~req[r].metaOK) =>
                /\ req[r].pc \notin UpsPcs
                /\ req[r].pc = "stream_open" =>
                     /\ req[r].status = 200
                     /\ req[r].filename = VideoMp4
                     /\ ~req[r].created /\ ~req[r].raised)
    /\ [][ \A r \in Reqs :
             (StepOf(r) /\ req'[r].kind = "download" /\ req[r].pc \notin UpsPcs) =>
                 channels' = channels ]_vars

\* the response of such a /download has begun and its file is there
C6_Witness ==
    \E r \in Reqs :
        /\ req[r].kind = "download" /\ ~req[r].metaOK
        /\ req[r].pc = "stream_open" /\ req[r].status = 200
        /\ req[r].filename = VideoMp4
        /\ Exists(files, req[r].path)
        /\ channels # {}

\* ------------------------------------------------------------------ C7
\* C7: the write of an upsert that found its id in the table leaves the stored
\* title (thumbnail) as it is when the new one is null and replaces it when the
\* new one is not null; an empty or absent id never reaches the table: no
\* upsert runs with one and no row has one.
C7_CoalesceLaw ==
    /\ [][ \A r \in Reqs :
             (req[r].pc = "ups_write" /\ StepOf(r) /\ req[r].found) =>
                 \A row \in channels : row.id = req[r].ch =>
                     \E new \in channels' :
                         /\ new.id = row.id
                         /\ new.title =
                              IF req[r].title = NULL THEN row.title ELSE req[r].title
                         /\ new.thumbnail =
                              IF req[r].thumb = NULL THEN row.thumbnail ELSE req[r].thumb ]_vars
    /\ [](/\ \A r \in Reqs : req[r].pc \in UpsPcs => ~Falsy(req[r].ch)
          /\ \A row \in channels : ~Falsy(row.id))

\* a row whose title was replaced by a non-null one (the listing's "Beta" by the
\* extractor's "Acme") while its thumbnail survived a null one ("t2" stayed)
C7_Witness ==
    \E row \in channels : row.title = "Acme" /\ row.thumbnail = "t2"

\* ------------------------------------------------------------------ C8
\* C8: the write of an upsert that finds no row inserts one with saved_at =
\* last_used_at = its timestamp; the write of one that finds the row leaves
\* saved_at as it is and sets last_used_at to its timestamp, and when its title
\* and thumbnail are the stored ones nothing else changes; saved_at of a row
\* never changes and each id keeps one row.
C8_SavedOnceUsedLast ==
    [][ /\ \A row \in channels : \E new \in channels' :
              new.id = row.id /\ new.saved_at = row.saved_at
        /\ \A r \in Reqs :
             (req[r].pc = "ups_write" /\ StepOf(r) /\ ~req'[r].raised) =>
                 LET mine == { x \in channels' : x.id = req[r].ch }
                     ts == IsoFormat(req[r].now)
                 IN  /\ Cardinality(mine) = 1
                     /\ \A new \in mine :
                          /\ new.last_used_at = ts
                          /\ ~req[r].found => new.saved_at = ts
                          /\ \A row \in channels :
                               ( /\ row.id = req[r].ch
                                 /\ row.title = req[r].title
                                 /\ row.thumbnail = req[r].thumb ) =>
                                   new = [row EXCEPT !.last_used_at = ts] ]_vars

\* both requests upserted the same id one after the other, at different times
C8_Witness ==
    /\ \A r \in Reqs : req[r].pc = "done" /\ req[r].status = 200
    /\ \E r \in Reqs : req[r].created
    /\ \E r \in Reqs : ~req[r].created /\ req[r].kind = "channel_videos"
    /\ \E row \in channels :
         /\ row.saved_at = IsoFormat(TimeOf(0))
         /\ row.last_used_at = IsoFormat(TimeOf(1))
         /\ row.title = "Beta"

\* ------------------------------------------------------------------ C9
\* C9: with no credential configured every channel listing ends with 400 at
\* once: it made no call to the external API and never entered upsert_channel.
C9_NoCredentialFailsFast ==
    Falsy(key) =>
        \A r \in Reqs :
            req[r].kind = "channel_videos" =>
                /\ req[r].pc = "done"
                /\ req[r].status = 400
                /\ req[r].calls = 0
                /\ ~req[r].created

C9_Witness ==
    /\ key = ""
    /\ \E r \in Reqs : req[r].kind = "channel_videos" /\ req[r].status = 400
    /\ \E r \in Reqs : req[r].kind = "video_info" /\ req[r].created

\* ----------------------------------------------------------------- C10
\* the chunks emitted so far: none is empty, none exceeds 1 MiB, all but the last
\* are 1 MiB, and together they are the first pos bytes of the file
ChunksLaw(rq) ==
    /\ rq.pos = SumSeq(rq.chunks)
    /\ rq.pos <= rq.fsize
    /\ \A i \in 1..Len(rq.chunks) :
         /\ rq.chunks[i] > 0
         /\ rq.chunks[i] <= CHUNK
         /\ i < Len(rq.chunks) => rq.chunks[i] = CHUNK

\* C10 as stated: a stream read to the end emitted exactly the file's bytes in
\* chunks of 1 MiB (the last one shorter, none empty), the file was there while
\* chunks were emitted, and it is gone when the response completes.
C10_StreamsAllThenDeleted ==
    \A r \in Reqs :
        /\ req[r].pc = "stream_yield" =>
             ChunksLaw(req[r]) /\ Exists(files, req[r].path)
        /\ req[r].pc = "stream_done" =>
             /\ ChunksLaw(req[r])
             /\ SumSeq(req[r].chunks) = req[r].fsize
             /\ ~Exists(files, req[r].path)

\* C10 amended: as stated, except that the file is gone when the response
\* completes unless os.remove raised (the error is swallowed and the file stays).
C10_StreamsAllThenDeletedUnlessRemoveFails ==
    \A r \in Reqs :
        /\ req[r].pc = "stream_yield" =>
             ChunksLaw(req[r]) /\ Exists(files, req[r].path)
        /\ req[r].pc = "stream_done" =>
             /\ ChunksLaw(req[r])
             /\ SumSeq(req[r].chunks) = req[r].fsize
             /\ ~req[r].rmerr => ~Exists(files, req[r].path)

\* a file of one full chunk and one byte was read to the end and deleted
C10_Witness ==
    \E r \in Reqs :
        /\ req[r].pc = "stream_done"
        /\ req[r].chunks = <<CHUNK, 1>>
        /\ ~req[r].rmerr
        /\ ~Exists(files, req[r].path)

====
